---------------------------- MODULE Spec2Model ----------------------------
(***************************************************************************)
(* Lifecycle model of yuzito: RTMPStreamer (src/src/camera.py), RTMPServer *)
(* (src/src/rtmp_server.py), StatsServer (src/src/server.py) and main()    *)
(* with its signal handler (src/src/cli.py).                               *)
(*                                                                         *)
(* Three execution contexts run the code: "main" (the main thread), "sig"  *)
(* (the signal handler, which Python runs on the main thread while the     *)
(* interrupted main code is suspended) and "worker" (the daemon thread     *)
(* running RTMPStreamer._streaming_thread).  pc[c] is the position of      *)
(* context c; frame[c] is the call site whose call is in progress.         *)
(*                                                                         *)
(* Time is abstracted.  A bounded wait times out only when what it waits   *)
(* for cannot happen within the bound: Popen.wait(timeout=5) times out iff *)
(* the child ignores SIGTERM, Thread.join(timeout=10) times out iff the    *)
(* worker is blocked in a capture or in a pipe write (the worker's own     *)
(* clean-up waits at most 5 s).                                            *)
(***************************************************************************)
EXTENDS Naturals, FiniteSets, Sequences, TLC

\* ------------------------------------------------------------- bounds --
\* cleanupRuns saturates at this value
MaxCount == 3
\* scratch directories that may be left behind before start() is no longer called
MaxLeaked == 2

VARIABLES
    \* ---- RTMPStreamer fields and the things they refer to
    thread,         \* self._thread: "none" | "alive" | "dead"
    stopEvent,      \* self._stop_event is set
    camera,         \* self.camera: "none" | "opened" | "warming" (started, warm-up running)
                    \*              | "started" (warmed up) | "stopped"
    ffmpeg_process, \* self.ffmpeg_process: "none" | "alive" | "dead" (poll() is not None)
    stdinClosed,    \* self.ffmpeg_process.stdin has been closed
    encOrphans,     \* live encoder processes no field refers to any more
    rtmp_url,       \* self.rtmp_url: "none" (no streamer yet) | "orig" | "relay"
    \* ---- environment of the streamer
    encMode,        \* the encoder child: "ok" | "deaf" (ignores SIGTERM) | "hung" (also stops reading stdin)
    encTerm,        \* SIGTERM has been sent to the current encoder
    camHung,        \* capture_array() does not return
    \* ---- RTMPServer fields and the things they refer to
    nginx_process,  \* self.nginx_process: "none" | "alive" | "dead"
    nginx_dir,      \* self.nginx_dir: "none" | "present" | "removed" (the path exists or not)
    leakedDirs,     \* scratch directories on disk that self.nginx_dir no longer names
    relayOrphans,   \* live relay processes no field refers to any more
    relayDeaf,      \* the relay child ignores SIGTERM
    relayTerm,      \* SIGTERM has been sent to the current relay
    listen,         \* ports the current relay was configured to listen on: [http, rtmp]
    rtmp_port,      \* self.rtmp_port
    http_port,      \* self.http_port
    \* ---- StatsServer
    server_thread,  \* self.server_thread: "none" | "alive"
    streamer,       \* self.streamer: "none" | "attached"
    response,       \* the last answer to GET /live/stats: [code, status, url]
    \* ---- control
    pc, frame,
    exc,            \* exception in flight in main(): "none" | "Error" | "SystemExit"
    exitCode,       \* "running" | "0" | "1"
    subject,        \* what drives the objects: "streamer" | "server" (a caller of that class) | "program" (main())
    \* ---- main()
    selfHosted,     \* args.self_hosted
    rtmp_server,    \* main's rtmp_server is not None
    dest,           \* args.rtmp_url: "orig" | "relay"
    handlerInstalled,
    sigReceived,
    \* ---- observation (history) variables
    result,         \* outcome of the last RTMPStreamer call made by "main"
    relayRes,       \* outcome of the last RTMPServer call
    cleanupRuns,    \* _cleanup() invocations since the worker of this run was started
    encCrashed,     \* the encoder of this run exited without having been signalled
    launchFailed,   \* Popen of the encoder raised in this run
    writeFailed,    \* a write of this run's worker raised because the encoder had exited
    spawnsSinceStop,\* encoders launched since the last stop() call (saturates at 2)
    relayStarted,   \* the last RTMPServer.start() returned the ingest address
    relayCrashed,   \* the relay of the last start() exited without having been signalled
    attempted,      \* stops invoked by the shutdown code: subset of {"enc","stats","relay"}
    encStopRaised,  \* a streamer.stop() of the shutdown code raised
    encStopReturned \* a streamer.stop() of the shutdown code returned normally

strVars   == <<thread, stopEvent, camera, ffmpeg_process, stdinClosed, encOrphans>>
encEnv    == <<encMode, encTerm, camHung>>
relayVars == <<nginx_process, nginx_dir, leakedDirs, relayOrphans, relayDeaf, relayTerm, listen>>
statVars  == <<streamer, response>>
parVars   == <<rtmp_url, rtmp_port, http_port>>
ctlVars   == <<pc, frame, exc, exitCode>>
cfgVars   == <<subject, selfHosted, rtmp_server, dest, handlerInstalled, sigReceived>>
histVars  == <<result, relayRes, relayStarted, relayCrashed, cleanupRuns, encCrashed, launchFailed, writeFailed, spawnsSinceStop>>
shutVars  == <<attempted, encStopRaised, encStopReturned>>

vars == <<thread, stopEvent, camera, ffmpeg_process, stdinClosed, encOrphans,
          encMode, encTerm, camHung,
          nginx_process, nginx_dir, leakedDirs, relayOrphans, relayDeaf, relayTerm, listen,
          server_thread, streamer, response, rtmp_url, rtmp_port, http_port,
          pc, frame, subject,
          selfHosted, rtmp_server, dest, handlerInstalled, sigReceived, exc, exitCode,
          result, relayRes, relayStarted, relayCrashed, cleanupRuns, encCrashed, launchFailed,
          writeFailed, spawnsSinceStop, attempted, encStopRaised, encStopReturned>>

Callers  == {"main", "sig"}
Contexts == {"main", "sig", "worker"}
EncModes == {"ok", "deaf", "hung"}

Inc(n, max) == IF n < max THEN n + 1 ELSE max

\* The process is still running and context c is the one the interpreter runs:
\* the handler suspends the main code; the worker runs concurrently.
Runs(c) ==
    /\ exitCode = "running"
    /\ \/ c = "worker"
       \/ c = "sig"  /\ pc["sig"] # "off"
       \/ c = "main" /\ pc["sig"] = "off"

\* The worker is blocked for longer than any bounded wait.
WorkerBlocked ==
    /\ thread = "alive"
    /\ \/ pc["worker"] = "w_capture" /\ camHung
       \/ pc["worker"] = "w_writing"

\* ------------------------------------------------ calls and exceptions --
\* Where a context continues when the call made at call site f returns.
AfterReturn(f) ==
    CASE f = "api"  -> "idle"
      [] f = "m143" -> "m_idle"
      [] f = "f153" -> "f_stats"
      [] f = "f157" -> "m_end"
      [] f = "h128" -> "h_stats"
      [] f = "h132" -> "h_exit"
      [] OTHER      -> "idle"

Ctl(p, f, e, x) == [pc |-> p, frame |-> f, exc |-> e, exitCode |-> x]

SetCtl(r) ==
    /\ pc' = r.pc
    /\ frame' = r.frame
    /\ exc' = r.exc
    /\ exitCode' = r.exitCode

Goto(c, l) == Ctl([pc EXCEPT ![c] = l], frame, exc, exitCode)

Return(c) ==
    Ctl([pc EXCEPT ![c] = AfterReturn(frame[c])], [frame EXCEPT ![c] = "none"],
        exc, exitCode)

\* main() is inside its try block (cli.py 138-147): an exception reaching it
\* there runs the finally block.
MainInTry == frame["main"] = "m143" \/ pc["main"] = "m_idle"

\* main() is inside the try block of RTMPServer.stop (rtmp_server.py 184-197).
MainInRelayStopTry ==
    frame["main"] = "f157" /\ pc["main"] \in {"rs_wait", "rs_kill", "rs_cleanup"}

\* An exception of kind k ("Error" | "SystemExit") leaves the signal handler
\* and propagates into the main code it interrupted.
Unwind(k) ==
    IF MainInTry
    THEN Ctl([pc EXCEPT !["sig"] = "off", !["main"] = "f_streamer"],
             [frame EXCEPT !["sig"] = "none", !["main"] = "none"], k, exitCode)
    ELSE IF MainInRelayStopTry /\ k = "Error"
    THEN Ctl([pc EXCEPT !["sig"] = "off", !["main"] = "m_end"],
             [frame EXCEPT !["sig"] = "none", !["main"] = "none"], exc, exitCode)
    ELSE Ctl([pc EXCEPT !["sig"] = "off", !["main"] = "exited"],
             [frame EXCEPT !["sig"] = "none", !["main"] = "none"], k,
             IF k = "SystemExit" THEN "0" ELSE "1")

\* An Exception leaves the RTMPStreamer call in progress in context c.
Raise(c) ==
    IF c = "sig" THEN Unwind("Error")
    ELSE IF frame[c] = "m143"
    THEN Ctl([pc EXCEPT ![c] = "f_streamer"], [frame EXCEPT ![c] = "none"],
             "Error", exitCode)
    ELSE IF frame[c] = "f153"
    THEN Ctl([pc EXCEPT ![c] = "exited"], [frame EXCEPT ![c] = "none"], "Error", "1")
    ELSE Ctl([pc EXCEPT ![c] = "idle"], [frame EXCEPT ![c] = "none"], exc, exitCode)

InShutdown(c) == frame[c] \in {"h128", "f153"}

\* ------------------------------------------------ RTMPStreamer.start --
\* StartGuard without the re-entrancy test of camera.py 125-127
StartGuardNoAliveTest(c) ==
    /\ Runs(c) /\ pc[c] = "st_guard"
    /\ SetCtl(Goto(c, "st_camera"))
    /\ stopEvent' = FALSE
    /\ UNCHANGED result
    /\ UNCHANGED <<thread, camera, ffmpeg_process, stdinClosed, encOrphans>>
    /\ UNCHANGED <<encEnv, relayVars, server_thread, cfgVars, statVars, parVars, shutVars>>
    /\ UNCHANGED <<relayRes, relayStarted, relayCrashed, cleanupRuns, encCrashed, launchFailed, writeFailed, spawnsSinceStop>>

\* camera.py 125-130
StartGuard(c) ==
    /\ Runs(c) /\ pc[c] = "st_guard"
    /\ IF thread = "alive"
       THEN /\ SetCtl(Return(c))
            /\ result' = "start_noop"
            /\ UNCHANGED stopEvent
       ELSE /\ SetCtl(Goto(c, "st_camera"))
            /\ stopEvent' = FALSE
            /\ UNCHANGED result
    /\ UNCHANGED <<thread, camera, ffmpeg_process, stdinClosed, encOrphans>>
    /\ UNCHANGED <<encEnv, relayVars, server_thread, cfgVars, statVars, parVars, shutVars>>
    /\ UNCHANGED <<relayRes, relayStarted, relayCrashed, cleanupRuns, encCrashed, launchFailed, writeFailed, spawnsSinceStop>>

\* camera.py 131, 56-60: a new camera object is created and configured
StartCameraOpen(c) ==
    /\ Runs(c) /\ pc[c] = "st_camera"
    /\ camera' = "opened"
    /\ camHung' = FALSE
    /\ SetCtl(Goto(c, "st_cam_start"))
    /\ UNCHANGED <<thread, stopEvent, ffmpeg_process, stdinClosed, encOrphans>>
    /\ UNCHANGED <<encMode, encTerm, relayVars, server_thread, cfgVars, statVars, parVars, shutVars, histVars>>

\* StartCameraStart with _setup_camera() returning without the warm-up delay
StartCameraStartNoWarmup(c) ==
    /\ Runs(c) /\ pc[c] = "st_cam_start"
    /\ camera' = "warming"
    /\ SetCtl(Goto(c, "st_thread"))
    /\ UNCHANGED <<thread, stopEvent, ffmpeg_process, stdinClosed, encOrphans>>
    /\ UNCHANGED <<encEnv, relayVars, server_thread, cfgVars, statVars, parVars, shutVars, histVars>>

\* camera.py 61: the camera is started and delivers frames
StartCameraStart(c) ==
    /\ Runs(c) /\ pc[c] = "st_cam_start"
    /\ camera' = "warming"
    /\ SetCtl(Goto(c, "st_warm"))
    /\ UNCHANGED <<thread, stopEvent, ffmpeg_process, stdinClosed, encOrphans>>
    /\ UNCHANGED <<encEnv, relayVars, server_thread, cfgVars, statVars, parVars, shutVars, histVars>>

\* camera.py 62-63: the warm-up delay is over and _setup_camera() returns
StartCameraOk(c) ==
    /\ Runs(c) /\ pc[c] = "st_warm"
    /\ camera' = "started"
    /\ UNCHANGED camHung
    /\ SetCtl(Goto(c, "st_thread"))
    /\ UNCHANGED <<thread, stopEvent, ffmpeg_process, stdinClosed, encOrphans>>
    /\ UNCHANGED <<encMode, encTerm, relayVars, server_thread, cfgVars, statVars, parVars, shutVars, histVars>>

\* camera.py 56: Picamera2() raises, the camera cannot be claimed
StartCameraFails(c) ==
    /\ Runs(c) /\ pc[c] = "st_camera"
    /\ SetCtl(Raise(c))
    /\ result' = "start_raised"
    /\ UNCHANGED <<strVars, encEnv, relayVars, server_thread, cfgVars, statVars, parVars, shutVars>>
    /\ UNCHANGED <<relayRes, relayStarted, relayCrashed, cleanupRuns, encCrashed, launchFailed, writeFailed, spawnsSinceStop>>

\* camera.py 133-135
StartThread(c) ==
    /\ Runs(c) /\ pc[c] = "st_thread"
    /\ thread' = "alive"
    /\ SetCtl([Return(c) EXCEPT !.pc = [@ EXCEPT !["worker"] = "w_spawn"]])
    /\ result' = "started"
    /\ cleanupRuns' = 0
    /\ encCrashed' = FALSE
    /\ launchFailed' = FALSE
    /\ writeFailed' = FALSE
    /\ UNCHANGED <<stopEvent, camera, ffmpeg_process, stdinClosed, encOrphans>>
    /\ UNCHANGED <<encEnv, relayVars, server_thread, cfgVars, statVars, parVars, shutVars>>
    /\ UNCHANGED <<relayRes, relayStarted, relayCrashed, spawnsSinceStop>>

\* ------------------------------------- RTMPStreamer._streaming_thread --
\* Entry into _cleanup() from context c (camera.py 106 and 146).
EnterCleanup(c) ==
    /\ SetCtl(Goto(c, "c_poll"))
    /\ cleanupRuns' = Inc(cleanupRuns, MaxCount)

\* camera.py 69-95: the encoder is launched
WorkerSpawnOk ==
    /\ Runs("worker") /\ pc["worker"] = "w_spawn"
    /\ \E m \in EncModes : encMode' = m
    /\ ffmpeg_process' = "alive"
    /\ encOrphans' = IF ffmpeg_process = "alive" THEN encOrphans + 1 ELSE encOrphans
    /\ stdinClosed' = FALSE
    /\ encTerm' = FALSE
    /\ SetCtl(Goto("worker", "w_loop"))
    /\ spawnsSinceStop' = Inc(spawnsSinceStop, 2)
    /\ UNCHANGED <<thread, stopEvent, camera, camHung>>
    /\ UNCHANGED <<relayVars, server_thread, cfgVars, statVars, parVars, shutVars>>
    /\ UNCHANGED <<result, relayRes, relayStarted, relayCrashed, cleanupRuns, encCrashed, launchFailed, writeFailed>>

\* camera.py 90: Popen raises; 103-106 log it and clean up
WorkerSpawnFails ==
    /\ Runs("worker") /\ pc["worker"] = "w_spawn"
    /\ launchFailed' = TRUE
    /\ EnterCleanup("worker")
    /\ UNCHANGED <<strVars, encEnv, relayVars, server_thread, cfgVars, statVars, parVars, shutVars>>
    /\ UNCHANGED <<result, relayRes, relayStarted, relayCrashed, encCrashed, writeFailed, spawnsSinceStop>>

\* camera.py 98
WorkerLoop ==
    /\ Runs("worker") /\ pc["worker"] = "w_loop"
    /\ IF stopEvent
       THEN EnterCleanup("worker")
       ELSE SetCtl(Goto("worker", "w_capture")) /\ UNCHANGED cleanupRuns
    /\ UNCHANGED <<strVars, encEnv, relayVars, server_thread, cfgVars, statVars, parVars, shutVars>>
    /\ UNCHANGED <<result, relayRes, relayStarted, relayCrashed, encCrashed, launchFailed, writeFailed, spawnsSinceStop>>

\* camera.py 99: a frame is captured; a started camera delivers one whether
\* or not its warm-up is over
WorkerCapture ==
    /\ Runs("worker") /\ pc["worker"] = "w_capture"
    /\ camera \in {"warming", "started"} /\ ~camHung
    /\ SetCtl(Goto("worker", "w_write"))
    /\ UNCHANGED <<strVars, encEnv, relayVars, server_thread, cfgVars, statVars, parVars, shutVars, histVars>>

\* camera.py 99: capture_array() raises once the camera has been stopped, or
\* when there is no camera object (103-106 log it and clean up)
WorkerCaptureFails ==
    /\ Runs("worker") /\ pc["worker"] = "w_capture"
    /\ camera \in {"stopped", "none"}
    /\ EnterCleanup("worker")
    /\ UNCHANGED <<strVars, encEnv, relayVars, server_thread, cfgVars, statVars, parVars, shutVars>>
    /\ UNCHANGED <<result, relayRes, relayStarted, relayCrashed, encCrashed, launchFailed, writeFailed, spawnsSinceStop>>

\* WorkerWrite with a failed write answered by launching the encoder again
WorkerWriteRetry ==
    /\ Runs("worker") /\ pc["worker"] = "w_write"
    /\ SetCtl(Goto("worker", IF stdinClosed \/ ffmpeg_process # "alive" THEN "w_spawn"
                             ELSE IF encMode = "hung" THEN "w_writing" ELSE "w_loop"))
    /\ writeFailed' = (writeFailed \/ (~stdinClosed /\ ffmpeg_process # "alive"))
    /\ UNCHANGED <<strVars, encEnv, relayVars, server_thread, cfgVars, statVars, parVars, shutVars>>
    /\ UNCHANGED <<result, relayRes, relayStarted, relayCrashed, cleanupRuns, encCrashed, launchFailed, spawnsSinceStop>>

\* camera.py 101: stdin.write().  A closed stdin raises ValueError, a dead
\* encoder BrokenPipeError; an encoder that does not read leaves the worker
\* blocked inside write(), holding the buffered writer's lock.
WorkerWrite ==
    /\ Runs("worker") /\ pc["worker"] = "w_write"
    /\ IF stdinClosed \/ ffmpeg_process # "alive"
       THEN EnterCleanup("worker")
       ELSE /\ SetCtl(Goto("worker", IF encMode = "hung" THEN "w_writing" ELSE "w_loop"))
            /\ UNCHANGED cleanupRuns
    /\ writeFailed' = (writeFailed \/ (~stdinClosed /\ ffmpeg_process # "alive"))
    /\ UNCHANGED <<strVars, encEnv, relayVars, server_thread, cfgVars, statVars, parVars, shutVars>>
    /\ UNCHANGED <<result, relayRes, relayStarted, relayCrashed, encCrashed, launchFailed, spawnsSinceStop>>

\* camera.py 101: the blocked write fails when the encoder is gone
WorkerWriteBroken ==
    /\ Runs("worker") /\ pc["worker"] = "w_writing"
    /\ ffmpeg_process # "alive"
    /\ EnterCleanup("worker")
    /\ writeFailed' = TRUE
    /\ UNCHANGED <<strVars, encEnv, relayVars, server_thread, cfgVars, statVars, parVars, shutVars>>
    /\ UNCHANGED <<result, relayRes, relayStarted, relayCrashed, encCrashed, launchFailed, spawnsSinceStop>>

\* ------------------------------------------------- RTMPStreamer.stop --
\* StopGuard without the early return of camera.py 139-141
StopGuardNoReturn(c) ==
    /\ Runs(c) /\ pc[c] = "sp_guard"
    /\ SetCtl(Goto(c, "sp_join"))
    /\ stopEvent' = TRUE
    /\ UNCHANGED <<result, encStopReturned>>
    /\ UNCHANGED <<thread, camera, ffmpeg_process, stdinClosed, encOrphans>>
    /\ UNCHANGED <<encEnv, relayVars, server_thread, cfgVars, statVars, parVars, attempted, encStopRaised>>
    /\ UNCHANGED <<relayRes, relayStarted, relayCrashed, cleanupRuns, encCrashed, launchFailed, writeFailed, spawnsSinceStop>>

\* camera.py 139-144
StopGuard(c) ==
    /\ Runs(c) /\ pc[c] = "sp_guard"
    /\ IF thread # "alive"
       THEN /\ SetCtl(Return(c))
            /\ result' = IF c = "main" THEN "stop_noop" ELSE result
            /\ encStopReturned' = (encStopReturned \/ InShutdown(c))
            /\ UNCHANGED stopEvent
       ELSE /\ SetCtl(Goto(c, "sp_join"))
            /\ stopEvent' = TRUE
            /\ UNCHANGED <<result, encStopReturned>>
    /\ UNCHANGED <<thread, camera, ffmpeg_process, stdinClosed, encOrphans>>
    /\ UNCHANGED <<encEnv, relayVars, server_thread, cfgVars, statVars, parVars, attempted, encStopRaised>>
    /\ UNCHANGED <<relayRes, relayStarted, relayCrashed, cleanupRuns, encCrashed, launchFailed, writeFailed, spawnsSinceStop>>

\* StopJoin with the _cleanup() call of camera.py 146 left to the worker alone
StopJoinNoCleanup(c) ==
    /\ Runs(c) /\ pc[c] = "sp_join"
    /\ thread = "dead" \/ WorkerBlocked
    /\ SetCtl(Return(c))
    /\ result' = IF c = "main" THEN "stopped" ELSE result
    /\ encStopReturned' = (encStopReturned \/ InShutdown(c))
    /\ UNCHANGED <<strVars, encEnv, relayVars, server_thread, cfgVars, statVars, parVars, attempted, encStopRaised>>
    /\ UNCHANGED <<relayRes, relayStarted, relayCrashed, cleanupRuns, encCrashed, launchFailed, writeFailed, spawnsSinceStop>>

\* camera.py 145-146: join(timeout=10) returns when the worker has ended, or
\* after the timeout when the worker is blocked; _cleanup() is entered
StopJoin(c) ==
    /\ Runs(c) /\ pc[c] = "sp_join"
    /\ thread = "dead" \/ WorkerBlocked
    /\ EnterCleanup(c)
    /\ UNCHANGED <<strVars, encEnv, relayVars, server_thread, cfgVars, statVars, parVars, shutVars>>
    /\ UNCHANGED <<result, relayRes, relayStarted, relayCrashed, encCrashed, launchFailed, writeFailed, spawnsSinceStop>>

\* ---------------------------------------------- RTMPStreamer._cleanup --
\* camera.py 110
CleanupPoll(c) ==
    /\ Runs(c) /\ pc[c] = "c_poll"
    /\ SetCtl(Goto(c, IF ffmpeg_process = "alive" THEN "c_close" ELSE "c_cam"))
    /\ UNCHANGED <<strVars, encEnv, relayVars, server_thread, cfgVars, statVars, parVars, shutVars, histVars>>

\* camera.py 112: stdin.close() takes the buffered writer's lock, which a
\* write() in progress in the worker holds
CleanupClose(c) ==
    /\ Runs(c) /\ pc[c] = "c_close"
    /\ pc["worker"] # "w_writing"
    /\ stdinClosed' = TRUE
    /\ SetCtl(Goto(c, "c_term"))
    /\ UNCHANGED <<thread, stopEvent, camera, ffmpeg_process, encOrphans>>
    /\ UNCHANGED <<encEnv, relayVars, server_thread, cfgVars, statVars, parVars, shutVars, histVars>>

\* camera.py 113
CleanupTerminate(c) ==
    /\ Runs(c) /\ pc[c] = "c_term"
    /\ encTerm' = (encTerm \/ ffmpeg_process = "alive")
    /\ SetCtl(Goto(c, "c_wait"))
    /\ UNCHANGED <<strVars, encMode, camHung>>
    /\ UNCHANGED <<relayVars, server_thread, cfgVars, statVars, parVars, shutVars, histVars>>

\* camera.py 114-116: wait(timeout=5).  An encoder that honours SIGTERM exits
\* within the wait; one that ignores it makes the wait time out.
CleanupWait(c) ==
    /\ Runs(c) /\ pc[c] = "c_wait"
    /\ IF ffmpeg_process = "alive" /\ encMode # "ok"
       THEN SetCtl(Goto(c, "c_kill")) /\ UNCHANGED ffmpeg_process
       ELSE SetCtl(Goto(c, "c_cam")) /\ ffmpeg_process' = "dead"
    /\ UNCHANGED <<thread, stopEvent, camera, stdinClosed, encOrphans>>
    /\ UNCHANGED <<encEnv, relayVars, server_thread, cfgVars, statVars, parVars, shutVars, histVars>>

\* camera.py 117
CleanupKill(c) ==
    /\ Runs(c) /\ pc[c] = "c_kill"
    /\ ffmpeg_process' = "dead"
    /\ SetCtl(Goto(c, "c_cam"))
    /\ UNCHANGED <<thread, stopEvent, camera, stdinClosed, encOrphans>>
    /\ UNCHANGED <<encEnv, relayVars, server_thread, cfgVars, statVars, parVars, shutVars, histVars>>

\* _cleanup() is over in context c: the worker thread ends (camera.py 106),
\* stop() returns to its caller (camera.py 146).
CleanupDone(c) ==
    IF c = "worker"
    THEN /\ thread' = "dead"
         /\ SetCtl(Goto(c, "w_off"))
         /\ UNCHANGED <<result, encStopReturned, encStopRaised>>
    ELSE /\ SetCtl(Return(c))
         /\ result' = IF c = "main" THEN "stopped" ELSE result
         /\ encStopReturned' = (encStopReturned \/ InShutdown(c))
         /\ UNCHANGED <<thread, encStopRaised>>

\* CleanupCamera without the camera.stop() of camera.py 121
CleanupCameraSkipped(c) ==
    /\ Runs(c) /\ pc[c] = "c_cam"
    /\ CleanupDone(c)
    /\ UNCHANGED <<stopEvent, camera, ffmpeg_process, stdinClosed, encOrphans>>
    /\ UNCHANGED <<encEnv, relayVars, server_thread, cfgVars, statVars, parVars, attempted>>
    /\ UNCHANGED <<relayRes, relayStarted, relayCrashed, cleanupRuns, encCrashed, launchFailed, writeFailed, spawnsSinceStop>>

\* camera.py 119-121
CleanupCamera(c) ==
    /\ Runs(c) /\ pc[c] = "c_cam"
    /\ camera' = IF camera = "none" THEN "none" ELSE "stopped"
    /\ CleanupDone(c)
    /\ UNCHANGED <<stopEvent, ffmpeg_process, stdinClosed, encOrphans>>
    /\ UNCHANGED <<encEnv, relayVars, server_thread, cfgVars, statVars, parVars, attempted>>
    /\ UNCHANGED <<relayRes, relayStarted, relayCrashed, cleanupRuns, encCrashed, launchFailed, writeFailed, spawnsSinceStop>>

\* camera.py 121: camera.stop() raises.  Nothing in _cleanup() or stop()
\* catches it: in the worker it ends the thread, in stop() it reaches the caller.
CleanupCameraFails(c) ==
    /\ Runs(c) /\ pc[c] = "c_cam"
    /\ camera # "none"
    /\ IF c = "worker"
       THEN /\ thread' = "dead"
            /\ SetCtl(Goto(c, "w_off"))
            /\ UNCHANGED <<result, encStopRaised>>
       ELSE /\ SetCtl(Raise(c))
            /\ result' = IF c = "main" THEN "stop_raised" ELSE result
            /\ encStopRaised' = (encStopRaised \/ InShutdown(c))
            /\ UNCHANGED thread
    /\ UNCHANGED <<stopEvent, camera, ffmpeg_process, stdinClosed, encOrphans>>
    /\ UNCHANGED <<encEnv, relayVars, server_thread, cfgVars, statVars, parVars, attempted, encStopReturned>>
    /\ UNCHANGED <<relayRes, relayStarted, relayCrashed, cleanupRuns, encCrashed, launchFailed, writeFailed, spawnsSinceStop>>

\* ------------------------------------------------------- environment --
\* The encoder child exits by itself.
EncoderExits ==
    /\ exitCode = "running"
    /\ ffmpeg_process = "alive"
    /\ ffmpeg_process' = "dead"
    /\ encCrashed' = (encCrashed \/ ~encTerm)
    /\ UNCHANGED <<thread, stopEvent, camera, stdinClosed, encOrphans>>
    /\ UNCHANGED <<encEnv, relayVars, server_thread, ctlVars, cfgVars, statVars, parVars, shutVars>>
    /\ UNCHANGED <<result, relayRes, relayStarted, relayCrashed, cleanupRuns, launchFailed, writeFailed, spawnsSinceStop>>

\* The camera stops delivering frames.
CameraHangs ==
    /\ exitCode = "running"
    /\ camera = "started" /\ thread = "alive" /\ ~camHung
    /\ camHung' = TRUE
    /\ UNCHANGED <<strVars, encMode, encTerm>>
    /\ UNCHANGED <<relayVars, server_thread, ctlVars, cfgVars, statVars, parVars, shutVars, histVars>>

\* The relay child exits by itself.
RelayExits ==
    /\ exitCode = "running"
    /\ nginx_process = "alive"
    /\ nginx_process' = "dead"
    /\ relayCrashed' = (relayCrashed \/ ~relayTerm)
    /\ UNCHANGED <<nginx_dir, leakedDirs, relayOrphans, relayDeaf, relayTerm, listen>>
    /\ UNCHANGED <<strVars, encEnv, server_thread, ctlVars, cfgVars, statVars, parVars, shutVars>>
    /\ UNCHANGED <<result, relayRes, relayStarted, cleanupRuns, encCrashed, launchFailed, writeFailed, spawnsSinceStop>>

\* --------------------------------------------------- RTMPServer.start --
BinStates    == {"missing", "no_rtmp", "ok"}
ConfigStates == {"ok", "fail_mkdtemp", "fail_after"}
LaunchStates == {"ok", "popen_raises", "exited"}

\* rtmp_server.py 65: the default ports of RTMPServer
DefaultRtmpPort == 1935
DefaultHttpPort == 8080

\* rtmp_server.py 29 and 40: the listen directives of the configuration text
TemplateHttpPort == 8080
TemplateRtmpPort == 1935

\* the port values an RTMPServer is constructed with
RtmpPorts == {DefaultRtmpPort, DefaultRtmpPort + 1}
HttpPorts == {DefaultHttpPort, DefaultHttpPort + 1}

\* rtmp_server.py 16-59: the ports the configuration text makes nginx listen on
NGINX_CONFIG_TEMPLATE == [http |-> TemplateHttpPort, rtmp |-> TemplateRtmpPort]

\* no relay has been launched
NoListen == [http |-> 0, rtmp |-> 0]

\* rtmp_server.py 104-124: the configuration written for an instance with
\* ports rp and hp is the template text as it stands (117-118)
setup_nginx_config(rp, hp) == NGINX_CONFIG_TEMPLATE

\* rtmp_server.py 79: the port of self.rtmp_url, which start() returns (163)
rtmp_url_port(rp) == rp

\* rtmp_server.py 159-161: the port of the HTTP endpoints start() announces
http_url_port(hp) == hp

\* rtmp_server.py 81-102: nginx is on the PATH and `nginx -V` mentions rtmp
check_nginx_rtmp_installed(bin) == bin = "ok"

\* rtmp_server.py 169-176: the value of the directory self.nginx_dir names
\* after _cleanup()
ServerCleanupDir(d) == IF d = "present" THEN "removed" ELSE d

\* RTMPServer_start with the scratch configuration set up before the
\* preflight instead of after it
RTMPServer_start_ConfigFirst(bin, cfg, launch, deaf) ==
    IF nginx_process = "alive"
    THEN /\ relayRes' = "start_noop"
         /\ UNCHANGED relayVars
    ELSE IF cfg = "fail_mkdtemp"
    THEN /\ relayRes' = "ConfigError"
         /\ UNCHANGED relayVars
    ELSE /\ leakedDirs' = IF nginx_dir = "present" THEN leakedDirs + 1 ELSE leakedDirs
         /\ IF cfg = "fail_after" \/ ~check_nginx_rtmp_installed(bin)
            THEN /\ relayRes' = IF cfg = "fail_after" THEN "ConfigError" ELSE "DependencyMissing"
                 /\ nginx_dir' = "present"
                 /\ UNCHANGED <<nginx_process, relayOrphans, relayDeaf, relayTerm, listen>>
            ELSE IF launch = "popen_raises"
            THEN /\ relayRes' = "LaunchError"
                 /\ nginx_dir' = ServerCleanupDir("present")
                 /\ UNCHANGED <<nginx_process, relayOrphans, relayDeaf, relayTerm, listen>>
            ELSE /\ relayOrphans' = IF nginx_process = "alive" THEN relayOrphans + 1 ELSE relayOrphans
                 /\ relayDeaf' = deaf
                 /\ listen' = setup_nginx_config(rtmp_port, http_port)
                 /\ relayTerm' = FALSE
                 /\ IF launch = "exited"
                    THEN /\ relayRes' = "LaunchError"
                         /\ nginx_process' = "dead"
                         /\ nginx_dir' = ServerCleanupDir("present")
                    ELSE /\ relayRes' = "ok"
                         /\ nginx_process' = "alive"
                         /\ nginx_dir' = "present"

\* RTMPServer_start without the already-running test of rtmp_server.py 128-130
RTMPServer_start_NoGuard(bin, cfg, launch, deaf) ==
    IF ~check_nginx_rtmp_installed(bin)
    THEN /\ relayRes' = "DependencyMissing"
         /\ UNCHANGED relayVars
    ELSE IF cfg = "fail_mkdtemp"
    THEN /\ relayRes' = "ConfigError"
         /\ UNCHANGED relayVars
    ELSE /\ leakedDirs' = IF nginx_dir = "present" THEN leakedDirs + 1 ELSE leakedDirs
         /\ IF cfg = "fail_after"
            THEN /\ relayRes' = "ConfigError"
                 /\ nginx_dir' = "present"
                 /\ UNCHANGED <<nginx_process, relayOrphans, relayDeaf, relayTerm, listen>>
            ELSE IF launch = "popen_raises"
            THEN /\ relayRes' = "LaunchError"
                 /\ nginx_dir' = ServerCleanupDir("present")
                 /\ UNCHANGED <<nginx_process, relayOrphans, relayDeaf, relayTerm, listen>>
            ELSE /\ relayOrphans' = IF nginx_process = "alive" THEN relayOrphans + 1 ELSE relayOrphans
                 /\ relayDeaf' = deaf
                 /\ relayTerm' = FALSE
                 /\ listen' = setup_nginx_config(rtmp_port, http_port)
                 /\ IF launch = "exited"
                    THEN /\ relayRes' = "LaunchError"
                         /\ nginx_process' = "dead"
                         /\ nginx_dir' = ServerCleanupDir("present")
                    ELSE /\ relayRes' = "ok"
                         /\ nginx_process' = "alive"
                         /\ nginx_dir' = "present"

\* rtmp_server.py 126-167, as one step of its caller.  bin is what the
\* preflight finds, cfg how far _setup_nginx_config gets (it fails before or
\* after mkdtemp has created the directory), launch what becomes of the relay
\* (Popen raises, or the child has exited after the settle delay), deaf
\* whether the child ignores SIGTERM.
RTMPServer_start(bin, cfg, launch, deaf) ==
    IF nginx_process = "alive"
    THEN /\ relayRes' = "start_noop"                                     \* 128-130
         /\ UNCHANGED relayVars
    ELSE IF ~check_nginx_rtmp_installed(bin)
    THEN /\ relayRes' = "DependencyMissing"                        \* 132-134
         /\ UNCHANGED relayVars
    ELSE IF cfg = "fail_mkdtemp"
    THEN /\ relayRes' = "ConfigError"                              \* 122-124, 137-139
         /\ UNCHANGED relayVars
    ELSE /\ leakedDirs' = IF nginx_dir = "present" THEN leakedDirs + 1 ELSE leakedDirs  \* 108
         /\ IF cfg = "fail_after"
            THEN /\ relayRes' = "ConfigError"                      \* 122-124, 137-139
                 /\ nginx_dir' = "present"
                 /\ UNCHANGED <<nginx_process, relayOrphans, relayDeaf, relayTerm, listen>>
            ELSE IF launch = "popen_raises"
            THEN /\ relayRes' = "LaunchError"                      \* 144, 164-167
                 /\ nginx_dir' = ServerCleanupDir("present")
                 /\ UNCHANGED <<nginx_process, relayOrphans, relayDeaf, relayTerm, listen>>
            ELSE /\ relayOrphans' = IF nginx_process = "alive" THEN relayOrphans + 1 ELSE relayOrphans  \* 144-148
                 /\ relayDeaf' = deaf
                 /\ listen' = setup_nginx_config(rtmp_port, http_port)     \* 117-118, 145
                 /\ relayTerm' = FALSE
                 /\ IF launch = "exited"
                    THEN /\ relayRes' = "LaunchError"              \* 153-156, 164-167
                         /\ nginx_process' = "dead"
                         /\ nginx_dir' = ServerCleanupDir("present")
                    ELSE /\ relayRes' = "ok"                       \* 158-163
                         /\ nginx_process' = "alive"
                         /\ nginx_dir' = "present"

\* RTMPServer.start() as called: whether it returned the ingest address
ServerStart(bin, cfg, launch, deaf) ==
    /\ RTMPServer_start(bin, cfg, launch, deaf)
    /\ relayStarted' = IF relayRes' = "start_noop" THEN relayStarted ELSE relayRes' = "ok"
    /\ relayCrashed' = (relayRes' = "start_noop" /\ relayCrashed)

\* ---------------------------------------------------- RTMPServer.stop --
\* rtmp_server.py 180-186
ServerStopGuard(c) ==
    /\ Runs(c) /\ pc[c] = "rs_guard"
    /\ IF nginx_process # "alive"
       THEN SetCtl(Return(c)) /\ relayRes' = "stop_noop" /\ UNCHANGED relayTerm
       ELSE SetCtl(Goto(c, "rs_wait")) /\ relayTerm' = TRUE /\ UNCHANGED relayRes
    /\ UNCHANGED <<nginx_process, nginx_dir, leakedDirs, relayOrphans, relayDeaf, listen>>
    /\ UNCHANGED <<strVars, encEnv, server_thread, cfgVars, statVars, parVars, shutVars>>
    /\ UNCHANGED <<result, relayStarted, relayCrashed, cleanupRuns, encCrashed, launchFailed, writeFailed, spawnsSinceStop>>

\* rtmp_server.py 189-192: wait(timeout=5)
ServerStopWait(c) ==
    /\ Runs(c) /\ pc[c] = "rs_wait"
    /\ IF nginx_process = "alive" /\ relayDeaf
       THEN SetCtl(Goto(c, "rs_kill")) /\ UNCHANGED nginx_process
       ELSE SetCtl(Goto(c, "rs_cleanup")) /\ nginx_process' = "dead"
    /\ UNCHANGED <<nginx_dir, leakedDirs, relayOrphans, relayDeaf, relayTerm, listen>>
    /\ UNCHANGED <<strVars, encEnv, server_thread, cfgVars, statVars, parVars, shutVars, histVars>>

\* rtmp_server.py 193
ServerStopKill(c) ==
    /\ Runs(c) /\ pc[c] = "rs_kill"
    /\ nginx_process' = "dead"
    /\ SetCtl(Goto(c, "rs_cleanup"))
    /\ UNCHANGED <<nginx_dir, leakedDirs, relayOrphans, relayDeaf, relayTerm, listen>>
    /\ UNCHANGED <<strVars, encEnv, server_thread, cfgVars, statVars, parVars, shutVars, histVars>>

\* rtmp_server.py 195, 169-176
ServerStopCleanup(c) ==
    /\ Runs(c) /\ pc[c] = "rs_cleanup"
    /\ nginx_dir' = ServerCleanupDir(nginx_dir)
    /\ SetCtl(Return(c))
    /\ relayRes' = "stopped"
    /\ UNCHANGED <<nginx_process, leakedDirs, relayOrphans, relayDeaf, relayTerm, listen>>
    /\ UNCHANGED <<strVars, encEnv, server_thread, cfgVars, statVars, parVars, shutVars>>
    /\ UNCHANGED <<result, relayStarted, relayCrashed, cleanupRuns, encCrashed, launchFailed, writeFailed, spawnsSinceStop>>

\* ---------------------------------- a caller of the two classes' API --
Call(c, f, l) == Ctl([pc EXCEPT ![c] = l], [frame EXCEPT ![c] = f], exc, exitCode)

CallStreamerStart ==
    /\ Runs("main") /\ pc["main"] = "idle" /\ subject = "streamer"
    /\ SetCtl(Call("main", "api", "st_guard"))
    /\ UNCHANGED spawnsSinceStop
    /\ UNCHANGED <<strVars, encEnv, relayVars, server_thread, cfgVars, statVars, parVars, shutVars>>
    /\ UNCHANGED <<result, relayRes, relayStarted, relayCrashed, cleanupRuns, encCrashed, launchFailed, writeFailed>>

CallStreamerStop ==
    /\ Runs("main") /\ pc["main"] = "idle" /\ subject = "streamer"
    /\ SetCtl(Call("main", "api", "sp_guard"))
    /\ spawnsSinceStop' = 0
    /\ UNCHANGED <<strVars, encEnv, relayVars, server_thread, cfgVars, statVars, parVars, shutVars>>
    /\ UNCHANGED <<result, relayRes, relayStarted, relayCrashed, cleanupRuns, encCrashed, launchFailed, writeFailed>>

CallServerStart ==
    /\ Runs("main") /\ pc["main"] = "idle" /\ subject = "server"
    /\ leakedDirs < MaxLeaked
    /\ \E bin \in BinStates, cfg \in ConfigStates, launch \in LaunchStates, deaf \in BOOLEAN :
           ServerStart(bin, cfg, launch, deaf)
    /\ UNCHANGED <<strVars, encEnv, server_thread, ctlVars, cfgVars, statVars, parVars, shutVars>>
    /\ UNCHANGED <<result, cleanupRuns, encCrashed, launchFailed, writeFailed, spawnsSinceStop>>

CallServerStop ==
    /\ Runs("main") /\ pc["main"] = "idle" /\ subject = "server"
    /\ SetCtl(Call("main", "api", "rs_guard"))
    /\ UNCHANGED <<strVars, encEnv, relayVars, server_thread, cfgVars, statVars, parVars, shutVars, histVars>>

\* ------------------------------------------------------------ main() --
\* MainRelay without the try/except of cli.py 95-102: a failed relay start
\* leaves main()
MainRelayNoCatch ==
    /\ Runs("main") /\ pc["main"] = "m_relay"
    /\ IF selfHosted
       THEN /\ rtmp_server' = TRUE
            /\ \E bin \in BinStates, cfg \in ConfigStates, launch \in LaunchStates,
                  deaf \in BOOLEAN : ServerStart(bin, cfg, launch, deaf)
            /\ dest' = IF relayRes' = "ok" THEN "relay" ELSE "orig"
            /\ IF relayRes' = "ok"
               THEN SetCtl(Goto("main", "m_stats"))
               ELSE SetCtl(Ctl([pc EXCEPT !["main"] = "exited"], frame, "Error", "1"))
       ELSE /\ UNCHANGED <<rtmp_server, dest, relayRes, relayStarted, relayCrashed, relayVars>>
            /\ SetCtl(Goto("main", "m_stats"))
    /\ UNCHANGED <<strVars, encEnv, server_thread, shutVars>>
    /\ UNCHANGED <<statVars, parVars, subject, selfHosted, handlerInstalled, sigReceived>>
    /\ UNCHANGED <<result, cleanupRuns, encCrashed, launchFailed, writeFailed, spawnsSinceStop>>

\* cli.py 85-102: the optional relay; a failed start is logged and main goes on
MainRelay ==
    /\ Runs("main") /\ pc["main"] = "m_relay"
    /\ IF selfHosted
       THEN /\ rtmp_server' = TRUE
            /\ \E bin \in BinStates, cfg \in ConfigStates, launch \in LaunchStates,
                  deaf \in BOOLEAN : ServerStart(bin, cfg, launch, deaf)
            /\ dest' = IF relayRes' = "ok" THEN "relay" ELSE "orig"
       ELSE UNCHANGED <<rtmp_server, dest, relayRes, relayStarted, relayCrashed, relayVars>>
    /\ SetCtl(Goto("main", "m_stats"))
    /\ UNCHANGED <<strVars, encEnv, server_thread, shutVars>>
    /\ UNCHANGED <<statVars, parVars, subject, selfHosted, handlerInstalled, sigReceived>>
    /\ UNCHANGED <<result, cleanupRuns, encCrashed, launchFailed, writeFailed, spawnsSinceStop>>

\* server.py 97-110
StatsServer_start(t) == "alive"

\* cli.py 105-123: the streamer is created, the stats server started
MainStats ==
    /\ Runs("main") /\ pc["main"] = "m_stats"
    /\ rtmp_url' = dest                                                \* 105-106
    /\ streamer' = IF selfHosted THEN "attached" ELSE streamer          \* 116-120
    /\ server_thread' = IF selfHosted THEN StatsServer_start(server_thread) ELSE server_thread
    /\ SetCtl(Goto("main", "m_install"))
    /\ UNCHANGED <<strVars, encEnv, relayVars, cfgVars, shutVars, histVars>>
    /\ UNCHANGED <<response, rtmp_port, http_port>>

\* no request has been answered yet
NoResponse == [code |-> 0, status |-> "none", url |-> "none"]

\* get_stats without the attachment test of server.py 44-48
get_stats_NoAttachTest ==
    [code |-> 200,
     status |-> IF thread = "alive" THEN "active" ELSE "inactive",
     url |-> rtmp_url]

\* server.py 41-83: the answer of get_stats(): the error payload with 500 when
\* no streamer is attached (44-48), otherwise the statistics, whose status
\* is read from the worker thread (52) and whose url from the streamer (56)
get_stats ==
    IF streamer = "none"
    THEN [code |-> 500, status |-> "error", url |-> "none"]
    ELSE [code |-> 200,
          status |-> IF thread = "alive" THEN "active" ELSE "inactive",
          url |-> rtmp_url]

\* GetStats with a request that also ends the stream by setting the stop event
GetStatsStopping ==
    /\ exitCode = "running"
    /\ subject = "streamer" \/ server_thread = "alive"
    /\ response' = get_stats
    /\ stopEvent' = TRUE
    /\ UNCHANGED <<thread, camera, ffmpeg_process, stdinClosed, encOrphans>>
    /\ UNCHANGED <<encEnv, relayVars, server_thread, streamer, parVars>>
    /\ UNCHANGED <<ctlVars, cfgVars, shutVars, histVars>>

\* server.py 41-83: a GET /live/stats request is answered, by the test client
\* of a StatsServer or by the Flask thread main() started
GetStats ==
    /\ exitCode = "running"
    /\ subject = "streamer" \/ server_thread = "alive"
    /\ response' = get_stats
    /\ UNCHANGED <<strVars, encEnv, relayVars, server_thread, streamer, parVars>>
    /\ UNCHANGED <<ctlVars, cfgVars, shutVars, histVars>>

\* cli.py 135-143: the handlers are installed, the try block entered and
\* streamer.start() called
MainInstall ==
    /\ Runs("main") /\ pc["main"] = "m_install"
    /\ handlerInstalled' = TRUE
    /\ SetCtl(Call("main", "m143", "st_guard"))
    /\ UNCHANGED spawnsSinceStop
    /\ UNCHANGED <<statVars, parVars, subject, selfHosted, rtmp_server, dest, sigReceived>>
    /\ UNCHANGED <<strVars, encEnv, relayVars, server_thread, shutVars>>
    /\ UNCHANGED <<result, relayRes, relayStarted, relayCrashed, cleanupRuns, encCrashed, launchFailed, writeFailed>>

\* cli.py 128 (in the handler) and 153 (in the finally block)
ShutdownStreamer(c) ==
    /\ Runs(c) /\ pc[c] = (IF c = "sig" THEN "h_streamer" ELSE "f_streamer")
    /\ SetCtl(Call(c, IF c = "sig" THEN "h128" ELSE "f153", "sp_guard"))
    /\ attempted' = attempted \cup {"enc"}
    /\ spawnsSinceStop' = 0
    /\ UNCHANGED <<strVars, encEnv, relayVars, server_thread, cfgVars, statVars, parVars>>
    /\ UNCHANGED <<encStopRaised, encStopReturned>>
    /\ UNCHANGED <<result, relayRes, relayStarted, relayCrashed, cleanupRuns, encCrashed, launchFailed, writeFailed>>

\* server.py 112-120: StatsServer.stop() only logs
StatsServer_stop(t) == t

\* cli.py 129-130 and 154-155
ShutdownStats(c) ==
    /\ Runs(c) /\ pc[c] = (IF c = "sig" THEN "h_stats" ELSE "f_stats")
    /\ SetCtl(Goto(c, IF c = "sig" THEN "h_relay" ELSE "f_relay"))
    /\ server_thread' = IF selfHosted THEN StatsServer_stop(server_thread) ELSE server_thread
    /\ attempted' = IF selfHosted THEN attempted \cup {"stats"} ELSE attempted
    /\ UNCHANGED <<strVars, encEnv, relayVars, cfgVars, statVars, parVars, histVars>>
    /\ UNCHANGED <<encStopRaised, encStopReturned>>

\* cli.py 131-132 and 156-157
ShutdownRelay(c) ==
    /\ Runs(c) /\ pc[c] = (IF c = "sig" THEN "h_relay" ELSE "f_relay")
    /\ IF rtmp_server
       THEN /\ SetCtl(Call(c, IF c = "sig" THEN "h132" ELSE "f157", "rs_guard"))
            /\ attempted' = attempted \cup {"relay"}
       ELSE /\ SetCtl(Goto(c, IF c = "sig" THEN "h_exit" ELSE "m_end"))
            /\ UNCHANGED attempted
    /\ UNCHANGED <<strVars, encEnv, relayVars, server_thread, cfgVars, statVars, parVars, histVars>>
    /\ UNCHANGED <<encStopRaised, encStopReturned>>

\* cli.py 157: the finally block is over and the exception that entered it
\* ends the process
MainEnd ==
    /\ Runs("main") /\ pc["main"] = "m_end"
    /\ SetCtl(Ctl([pc EXCEPT !["main"] = "exited"], frame, exc,
                  IF exc = "Error" THEN "1" ELSE "0"))
    /\ UNCHANGED <<strVars, encEnv, relayVars, server_thread, cfgVars, statVars, parVars, shutVars, histVars>>

\* cli.py 126-127, 135-136: SIGINT or SIGTERM arrives; Python runs the
\* handler on the main thread.  One signal is delivered.
Signal ==
    /\ exitCode = "running"
    /\ handlerInstalled /\ ~sigReceived
    /\ pc["main"] # "exited"
    /\ sigReceived' = TRUE
    /\ SetCtl(Goto("sig", "h_streamer"))
    /\ UNCHANGED <<statVars, parVars, subject, selfHosted, rtmp_server, dest, handlerInstalled>>
    /\ UNCHANGED <<strVars, encEnv, relayVars, server_thread, shutVars, histVars>>

\* cli.py 133: sys.exit(0) raises SystemExit into the interrupted main code
HandlerExit ==
    /\ Runs("sig") /\ pc["sig"] = "h_exit"
    /\ SetCtl(Unwind("SystemExit"))
    /\ UNCHANGED <<strVars, encEnv, relayVars, server_thread, cfgVars, statVars, parVars, shutVars, histVars>>

\* ------------------------------------------------------ specifications --
InitObjects ==
    /\ thread = "none" /\ stopEvent = FALSE /\ camera = "none"
    /\ ffmpeg_process = "none" /\ stdinClosed = FALSE /\ encOrphans = 0
    /\ encMode = "ok" /\ encTerm = FALSE /\ camHung = FALSE
    /\ nginx_process = "none" /\ nginx_dir = "none" /\ leakedDirs = 0
    /\ relayOrphans = 0 /\ relayDeaf = FALSE /\ relayTerm = FALSE
    /\ listen = NoListen
    /\ server_thread = "none"
    /\ response = NoResponse
    /\ frame = [c \in Callers |-> "none"]
    /\ exc = "none" /\ exitCode = "running"
    /\ rtmp_server = FALSE /\ dest = "orig"
    /\ handlerInstalled = FALSE /\ sigReceived = FALSE
    /\ result = "none" /\ relayRes = "none" /\ relayStarted = FALSE /\ relayCrashed = FALSE
    /\ cleanupRuns = 0
    /\ encCrashed = FALSE /\ launchFailed = FALSE /\ writeFailed = FALSE /\ spawnsSinceStop = 0
    /\ attempted = {} /\ encStopRaised = FALSE /\ encStopReturned = FALSE

\* Each class driven through its public methods by a caller.  RTMPStreamer and
\* RTMPServer share no state, so a behaviour drives one of them.
Init ==
    /\ InitObjects
    /\ subject \in {"streamer", "server"}
    /\ selfHosted = FALSE
    /\ rtmp_url = "orig"
    /\ streamer \in (IF subject = "streamer" THEN {"none", "attached"} ELSE {"none"})
    /\ rtmp_port \in (IF subject = "server" THEN RtmpPorts ELSE {DefaultRtmpPort})
    /\ http_port \in (IF subject = "server" THEN HttpPorts ELSE {DefaultHttpPort})
    /\ pc = [c \in Contexts |-> IF c = "main" THEN "idle" ELSE IF c = "sig" THEN "off" ELSE "w_off"]

StreamerStep(c) ==
    \/ StopGuard(c) \/ StopJoin(c)
    \/ CleanupPoll(c) \/ CleanupClose(c) \/ CleanupTerminate(c) \/ CleanupWait(c)
    \/ CleanupKill(c) \/ CleanupCamera(c) \/ CleanupCameraFails(c)

StartStep(c) ==
    \/ StartGuard(c) \/ StartCameraOpen(c) \/ StartCameraStart(c) \/ StartCameraOk(c)
    \/ StartCameraFails(c) \/ StartThread(c)

ServerStep(c) ==
    \/ ServerStopGuard(c) \/ ServerStopWait(c) \/ ServerStopKill(c) \/ ServerStopCleanup(c)

WorkerStep ==
    \/ WorkerSpawnOk \/ WorkerSpawnFails \/ WorkerLoop \/ WorkerCapture
    \/ WorkerCaptureFails \/ WorkerWrite \/ WorkerWriteBroken
    \/ CleanupPoll("worker") \/ CleanupClose("worker") \/ CleanupTerminate("worker")
    \/ CleanupWait("worker") \/ CleanupKill("worker") \/ CleanupCamera("worker")
    \/ CleanupCameraFails("worker")

Env == EncoderExits \/ CameraHangs \/ RelayExits

CallerStep ==
    \/ CallStreamerStart \/ CallStreamerStop \/ CallServerStart \/ CallServerStop
    \/ StartStep("main") \/ StreamerStep("main") \/ ServerStep("main")

Next == CallerStep \/ WorkerStep \/ Env \/ GetStats

Spec == Init /\ [][Next]_vars

\* The threads are scheduled: a call in progress on the main thread and the
\* worker thread each take their next step when they can.  Whether the caller
\* makes another call, and what the children and the camera do, is left open.
FairSpec ==
    /\ Spec
    /\ WF_vars(StartStep("main") \/ StreamerStep("main") \/ ServerStep("main"))
    /\ WF_vars(WorkerStep)

\* main() of cli.py, with or without --self-hosted, and one signal.
MainInit ==
    /\ InitObjects
    /\ subject = "program"
    /\ selfHosted \in BOOLEAN
    /\ rtmp_url = "none"
    /\ streamer = "none"
    /\ rtmp_port \in (IF selfHosted THEN RtmpPorts ELSE {DefaultRtmpPort})   \* args.rtmp_port
    /\ http_port = DefaultHttpPort                                           \* args.http_port
    /\ pc = [c \in Contexts |-> IF c = "main" THEN "m_relay" ELSE IF c = "sig" THEN "off" ELSE "w_off"]

MainStep ==
    \/ MainRelay \/ MainStats \/ MainInstall
    \/ StartStep("main") \/ StreamerStep("main") \/ ServerStep("main")
    \/ ShutdownStreamer("main") \/ ShutdownStats("main") \/ ShutdownRelay("main")
    \/ MainEnd

HandlerStep ==
    \/ Signal
    \/ ShutdownStreamer("sig") \/ ShutdownStats("sig") \/ ShutdownRelay("sig")
    \/ StreamerStep("sig") \/ ServerStep("sig")
    \/ HandlerExit

MainNext == MainStep \/ HandlerStep \/ WorkerStep \/ Env \/ GetStats

MainSpec == MainInit /\ [][MainNext]_vars

\* =============================================================== claims ==
\* The fields of an RTMPStreamer and what they refer to.
StreamerState == <<thread, stopEvent, camera, ffmpeg_process, stdinClosed,
                   encOrphans, encMode, encTerm, camHung>>

\* The fields of an RTMPServer and what they refer to.
ServerState == <<nginx_process, nginx_dir, leakedDirs, relayOrphans, relayDeaf, relayTerm, listen>>

\* C1 as stated: between two stop() calls at most one encoder subprocess is
\* ever launched, so a second start() with no stop() in between launches none.
C1_NoSecondSpawnWithoutStop == spawnsSinceStop <= 1

\* C1, amended: start() called while the worker thread is alive returns at
\* once with the warning and changes nothing: no stop-event reset, no camera
\* set-up, no new thread, no new encoder.
C1_StartWhileAliveIsNoop ==
    [][ (pc["main"] = "st_guard" /\ thread = "alive" /\ pc'["main"] # "st_guard")
        => /\ pc'["main"] = AfterReturn(frame["main"])
           /\ result' = "start_noop"
           /\ UNCHANGED StreamerState
           /\ pc'["worker"] = pc["worker"] ]_vars

\* a second start() found the stream running and returned as a no-op
C1_Witness ==
    /\ result = "start_noop" /\ pc["main"] = "idle"
    /\ thread = "alive" /\ ffmpeg_process = "alive" /\ spawnsSinceStop = 1

\* C2: stop() of a streamer whose worker thread is not alive, and stop() of a
\* server whose relay process is not alive, return without raising and change
\* no field, signal no process, leave camera and scratch directory alone.
C2_StopWhenNotRunningIsNoop ==
    [][ /\ (pc["main"] = "sp_guard" /\ thread # "alive" /\ pc'["main"] # "sp_guard")
           => /\ pc'["main"] = AfterReturn(frame["main"])
              /\ result' = "stop_noop"
              /\ UNCHANGED StreamerState
        /\ (pc["main"] = "rs_guard" /\ nginx_process # "alive" /\ pc'["main"] # "rs_guard")
           => /\ pc'["main"] = AfterReturn(frame["main"])
              /\ relayRes' = "stop_noop"
              /\ UNCHANGED ServerState ]_vars

\* stop() was a no-op on a streamer whose worker had ended by itself
C2_Witness ==
    /\ result = "stop_noop" /\ pc["main"] = "idle"
    /\ thread = "dead" /\ camera = "stopped" /\ ffmpeg_process = "dead"

InStreamerStop(c) ==
    pc[c] \in {"sp_guard", "sp_join", "c_poll", "c_close", "c_term", "c_wait", "c_kill", "c_cam"}

InServerStop(c) == pc[c] \in {"rs_guard", "rs_wait", "rs_kill", "rs_cleanup"}

\* the last stop() of the caller has returned normally
StreamerStopReturned == pc["main"] = "idle" /\ result \in {"stopped", "stop_noop"}

\* the last RTMPServer.start() succeeded and a stop() called after it has returned
ServerStopReturned ==
    pc["main"] = "idle" /\ relayStarted /\ relayRes \in {"stopped", "stop_noop"}

C4_ScratchDirNeverOutlivesRelay ==
    (ServerStopReturned /\ nginx_process # "alive") => nginx_dir = "removed"

\* C5 as stated: when the encoder of a run has exited unexpectedly, the worker
\* has met the failure on a write and both the worker and any stop() are over,
\* _cleanup() has run exactly once for that run.
C5_CleanupExactlyOnce ==
    (encCrashed /\ writeFailed /\ thread = "dead" /\ pc["main"] = "idle")
        => cleanupRuns = 1

\* C6 as stated: when the camera cannot be opened or the encoder cannot be
\* launched, main() is not left idling in its loop: the failure has reached it.
C6_StartupFailureReachesMain ==
    (launchFailed \/ result = "start_raised")
        => ~(pc["main"] = "m_idle" /\ exc = "none")

\* C7 as stated: when the process has ended after a signal and a
\* streamer.stop() of the shutdown raised, stopping the stats server and the
\* relay were still attempted and no relay process is left alive.
C7_ShutdownStepsIndependent ==
    (exitCode # "running" /\ sigReceived /\ encStopRaised /\ rtmp_server)
        => /\ {"stats", "relay"} \subseteq attempted
           /\ nginx_process # "alive"

\* C8 as stated: no relay stop() begins before a streamer.stop() of the
\* shutdown has returned, and a process that ends after a signal exits with 0.
C8_OrderedShutdownExitZero ==
    /\ (\E c \in Callers : frame[c] \in {"h132", "f157"}) => encStopReturned
    /\ (exitCode # "running" /\ sigReceived) => exitCode = "0"

\* C9 as stated: a stop() in progress eventually returns, and then the child
\* is no longer present, whatever the child and the worker are doing.
C9_StopNeverHangs ==
    /\ InStreamerStop("main") ~> (pc["main"] = "idle" /\ ffmpeg_process # "alive")
    /\ InServerStop("main") ~> (pc["main"] = "idle" /\ nginx_process # "alive")

\* C10: a start() that finds the relay binary missing or without the RTMP
\* module raises DependencyMissing and creates no scratch directory, spawns
\* no process and changes no field.
C10_PreflightFailureCreatesNothing ==
    [][ \A bin \in {"missing", "no_rtmp"}, cfg \in ConfigStates,
           launch \in LaunchStates, deaf \in BOOLEAN :
            (nginx_process # "alive" /\ RTMPServer_start(bin, cfg, launch, deaf))
                => (relayRes' = "DependencyMissing" /\ UNCHANGED ServerState) ]_vars

\* a start() failed its preflight on a server that never had a directory or process
C10_Witness ==
    /\ relayRes = "DependencyMissing" /\ ~relayStarted
    /\ nginx_dir = "none" /\ nginx_process = "none" /\ leakedDirs = 0

\* the relay start of main() failed
RelayStartFailed == selfHosted /\ pc["main"] # "m_relay" /\ ~relayStarted

\* C11: a failed start of the optional relay does not end main(): main goes
\* on to create the streamer with the originally configured destination and
\* to start it; the destination is the relay's ingest address exactly when
\* the relay start succeeded.
C11_RelayFailureDegrades ==
    /\ pc["main"] \in {"m_stats", "m_install"} => (exc = "none" /\ exitCode = "running")
    /\ (RelayStartFailed /\ pc["main"] = "exited") => handlerInstalled
    /\ (selfHosted /\ pc["main"] # "m_relay") => (dest = "relay" <=> relayStarted)
    /\ rtmp_url # "none" => rtmp_url = (IF relayStarted THEN "relay" ELSE "orig")

\* the relay had exited after the settle delay, and the stream runs towards
\* the original destination
C11_Witness ==
    /\ RelayStartFailed /\ nginx_process = "dead" /\ relayRes = "LaunchError"
    /\ rtmp_url = "orig" /\ thread = "alive" /\ pc["main"] = "m_idle"

\* C12: no encoder and no relay process is ever alive besides the one the
\* instance's field refers to, and a start() of an RTMPServer whose relay is
\* alive returns as a no-op that changes nothing.
C12_AtMostOneChild ==
    /\ [](encOrphans = 0 /\ relayOrphans = 0)
    /\ [][ \A bin \in BinStates, cfg \in ConfigStates, launch \in LaunchStates, deaf \in BOOLEAN :
              (nginx_process = "alive" /\ RTMPServer_start(bin, cfg, launch, deaf))
                  => (relayRes' = "start_noop" /\ UNCHANGED ServerState) ]_vars

\* start() was called on a server whose relay was running
C12_Witness ==
    /\ relayRes = "start_noop" /\ nginx_process = "alive" /\ relayOrphans = 0
    /\ leakedDirs = 0 /\ nginx_dir = "present"

\* C13 as stated: a relay running after a successful start() listens for RTMP
\* on the port of the ingest address start() returned and for HTTP on the
\* instance's HTTP port.
C13_RelayListensOnConfiguredPorts ==
    (relayStarted /\ nginx_process = "alive")
        => /\ listen.rtmp = rtmp_url_port(rtmp_port)
           /\ listen.http = http_url_port(http_port)

\* C14: a request is answered with 500 and status "error", and nothing of
\* the statistics, exactly when no streamer is attached.
C14_NoStreamerIsError ==
    response # NoResponse
        => /\ streamer = "none" => response = [code |-> 500, status |-> "error", url |-> "none"]
           /\ streamer # "none" => (response.code = 200 /\ response.status # "error")

\* a request was answered with the error while an unattached streamer was running
C14_Witness ==
    /\ streamer = "none" /\ response.code = 500 /\ response.status = "error"
    /\ subject = "streamer" /\ thread = "alive"

\* C15: answering a status request changes no field of the streamer, nothing
\* the fields refer to, and the position of no thread.
C15_StatsRequestMutatesNothing ==
    [][ GetStats => UNCHANGED <<StreamerState, rtmp_url, pc, frame>> ]_vars

\* a request was answered while the worker was between a capture and a write
C15_Witness ==
    /\ response.status = "active" /\ thread = "alive" /\ ~stopEvent
    /\ pc["worker"] = "w_write" /\ ffmpeg_process = "alive" /\ camera = "started"

\* scratch directories on disk
DirsOnDisk == leakedDirs + (IF nginx_dir = "present" THEN 1 ELSE 0)

\* C16 as stated: a start() that fails after the preflight leaves no relay
\* process alive and no directory on disk that was not there before the call.
C16_FailedStartLeavesNothing ==
    [][ \A bin \in BinStates, cfg \in ConfigStates, launch \in LaunchStates, deaf \in BOOLEAN :
          (RTMPServer_start(bin, cfg, launch, deaf) /\ relayRes' \in {"ConfigError", "LaunchError"})
              => (nginx_process' # "alive" /\ DirsOnDisk' <= DirsOnDisk) ]_vars

\* C17: when a stop() that found the worker alive has returned, the camera
\* has been stopped.
C17_StopReleasesCamera ==
    (pc["main"] = "idle" /\ result = "stopped") => camera = "stopped"

\* stop() has returned after force-killing an encoder that ignored SIGTERM
C17_Witness ==
    /\ pc["main"] = "idle" /\ result = "stopped" /\ camera = "stopped"
    /\ encMode = "deaf" /\ encTerm /\ ffmpeg_process = "dead" /\ ~encCrashed

\* C18: after a failed write to a dead encoder the worker is in _cleanup() or
\* over, having written nothing more and launched no other encoder; main()
\* stays in its loop until a signal comes; and once the worker is over a
\* status request reports "inactive".
C18_WriteFailureEndsRunOnly ==
    /\ [](writeFailed =>
             /\ pc["worker"] \in {"c_poll", "c_close", "c_term", "c_wait", "c_kill", "c_cam", "w_off"}
             /\ cleanupRuns >= 1
             /\ ffmpeg_process # "alive" /\ encOrphans = 0)
    /\ []((writeFailed /\ ~sigReceived)
             => (pc["main"] = "m_idle" /\ exc = "none" /\ exitCode = "running"))
    /\ [][ (GetStats /\ writeFailed /\ thread = "dead" /\ streamer = "attached")
              => response'.status = "inactive" ]_vars

\* the worker is over after a failed write, main() idles, and a request made
\* since was answered "inactive"
C18_Witness ==
    /\ writeFailed /\ thread = "dead" /\ pc["main"] = "m_idle" /\ exitCode = "running"
    /\ response.status = "inactive" /\ cleanupRuns = 1 /\ ~sigReceived

\* C19: whenever the worker captures or writes a frame, the camera of this
\* start() has been opened, started and its warm-up delay is over.
C19_NoFrameBeforeWarmup ==
    pc["worker"] \in {"w_capture", "w_write", "w_writing"} => camera \in {"started", "stopped"}

\* a frame of a stream started again after the worker of an earlier start()
\* had ended and stopped the camera
C19_Witness ==
    /\ pc["worker"] = "w_write" /\ camera = "started" /\ result = "started"
    /\ ffmpeg_process = "alive" /\ spawnsSinceStop = 2 /\ ~stopEvent

\* C20 as stated: a request with a streamer attached reports "active" when
\* the worker thread is alive and "inactive" otherwise, and so "inactive"
\* before the first start(), after a stop() that has returned and after the
\* worker has ended.
C20_StatusTracksWorker ==
    [][ (GetStats /\ streamer = "attached")
          => /\ response'.status = (IF thread = "alive" THEN "active" ELSE "inactive")
             /\ (thread \in {"none", "dead"} \/ (pc["main"] = "idle" /\ result = "stopped"))
                    => response'.status = "inactive" ]_vars


\* main() has ended with exit code 0 after a signal, none of whose
\* streamer.stop() calls raised
ShutdownCompleted == exitCode = "0" /\ sigReceived /\ ~encStopRaised

\* C21 as stated: whenever the shutdown after a signal has completed, the
\* camera is not left started and no encoder process is alive, wherever
\* main() and the worker were when the signal arrived.
C21_ShutdownLeavesNothingRunning ==
    ShutdownCompleted
        => /\ camera \notin {"warming", "started"}
           /\ ffmpeg_process # "alive" /\ encOrphans = 0

\* the finally block of main() runs after the handler's pass has completed
\* and its sys.exit(0) has unwound into main()
SecondPass ==
    sigReceived /\ exc = "SystemExit" /\ pc["sig"] = "off" /\ exitCode = "running"

\* C22 as stated: in the second pass every stop() returns at its guard, so no
\* join, no _cleanup() (terminate, kill, camera.stop()) and no directory
\* removal is entered, and the pass does not raise.
C22_SecondShutdownIsNoop ==
    /\ [](SecondPass => pc["main"] \in {"f_streamer", "sp_guard", "f_stats", "f_relay", "rs_guard", "m_end"})
    /\ [][ SecondPass => exc' = "SystemExit" ]_vars

=============================================================================
